---- MODULE Spec2Model ----
(***************************************************************************)
(* Model of the chat relay (internal/server: registry, connection handler, *)
(* hub) and of the client's delivery tracker (internal/client).            *)
(*                                                                         *)
(* Granularity.  Every Go channel operation and every Conn.Close is a      *)
(* point where another goroutine can interleave, so the hub's loop bodies  *)
(* are split at the channel operations on Client.Send: receiving an event  *)
(* is merged with the hub-local map updates that follow it up to and       *)
(* including the first operation on a Send channel; every further Send     *)
(* operation of the same event is a step of its own (hubPc says where the  *)
(* hub stands).  The hub's four event channels are unbuffered: a handler   *)
(* blocked in `hub.x <- v` and the hub receiving it are one step.          *)
(***************************************************************************)
EXTENDS Integers, Sequences, FiniteSets, TLC

\* ---------------------------------------------------------------- bounds
MaxConns == 2        \* upgrade requests during a run of Spec
MaxMsgs == 3         \* frames the clients send during a run of Spec
MaxTakeover == 3     \* upgrade requests during a run of SpecTakeover
MaxTakeoverMsgs == 1 \* frames the clients send during a run of SpecTakeover
SendCap == 2         \* capacity of Client.Send (256 in the source, scaled)
MaxReqs == 3         \* POST /register requests during a run
MaxSent == 3         \* lines a client user submits during a run
MaxRateConns == 1    \* upgrade requests during a run of SpecRate
MaxRateMsgs == 7     \* frames the clients send during a run of SpecRate

\* ------------------------------------------------------ program constants
RateCap == 5         \* burst of the token bucket

Ids == {"a", "b"}    \* identifiers clients use; "" is the empty identifier
NoId == ""
Conns == 1..MaxTakeover
NoConn == 0

VARIABLES
    \* registry (users, usersMu) and the POST /register handlers
    users, usersMu, rpc, rid, rresp,
    \* connection handlers (writer, pinger: where the two goroutines stand)
    nextConn, status, pc, cid, pending, connClosed, sendQ, sendClosed, writer, pinger, tokens,
    frames,
    \* hub
    clients, byID, undelivered, hubPc, hubCur, shutdownReq,
    \* history: last endpoint registered per id, number of targeted events the hub has taken
    lastReg, arrivals,
    \* client-side delivery tracker
    sentMessages,
    \* the last call of Encrypt and of Decrypt: arguments and results
    encCall, decCall,
    \* two chat clients: where SendAndReceive stands, the key pair on disk, the
    \* maps peerPub and peerKeys, the frames on their way to each client, what
    \* each client has printed, the outcome of its sendBody calls, the read
    \* acks its timers still owe, and the frames other programs have sent
    run, keyFile, peerPub, peerKeys, wire, shown, sends, readDue, injected

regVars == <<users, usersMu, rpc, rid, rresp>>
connVars == <<nextConn, status, pc, cid, pending, connClosed, sendQ, sendClosed, writer, pinger,
              tokens, frames>>
hubVars == <<clients, byID, undelivered, hubPc, hubCur, shutdownReq>>
histVars == <<lastReg, arrivals>>
cryptVars == <<encCall, decCall>>
sessVars == <<run, keyFile, peerPub, peerKeys, wire, shown, sends, readDue, injected>>
cliVars == <<sentMessages, cryptVars, sessVars>>
vars == <<regVars, connVars, hubVars, histVars, cliVars>>

\* ------------------------------------------------------------- envelopes
\* messagePayload; wf = FALSE is a frame json.Unmarshal rejects.  msg_id 0 is
\* the empty msg_id.  seq is history, not part of the bytes: the hub's arrival
\* number of a targeted frame (0 before the hub has taken it).
Payload(wf, type, id, recipient, body, msgid) ==
    [wf |-> wf, type |-> type, id |-> id, recipient |-> recipient, body |-> body,
     msg_id |-> msgid, seq |-> 0]

NoFrame == Payload(FALSE, "", "", "", "", 0)

\* A frame a client writes (sendPayload sets id to the client's own id), and
\* a frame that is no JSON object.  The relay reads no field but recipient.
ClientFrame(from, to) == Payload(TRUE, "msg", from, to, "X", 1)
Malformed == Payload(FALSE, "", "", "", "", 0)

\* ack := messagePayload{Type: "ack", Recipient: t.to, Body: body}
AckEnvelope(to, body) == Payload(TRUE, "ack", "", to, body, 0)

\* er := messagePayload{Type: "error", Body: body}
ErrorEnvelope(body) == Payload(TRUE, "error", "", "", body, 0)

Stamp(m, n) == [m EXCEPT !.seq = n]
Raw(m) == [m EXCEPT !.seq = 0]

\* json.Unmarshal(msg, &payload) followed by payload.Recipient
Recipient(m) == IF m.wf THEN m.recipient ELSE ""

\* select { case ch <- m: default: } on an open channel of capacity SendCap
Offer(q, m) == IF Len(q) < SendCap THEN Append(q, m) ELSE q
HasRoom(q) == Len(q) < SendCap

\* When the hub's send to an endpoint's queue q proceeds: every send of RunHub
\* is a select with a default case, which never waits.
\* (mutant: a plain send `c.Send <- m`, which waits for room in the queue)
SendWaits(q) == HasRoom(q)
SendProceeds(q) == TRUE

NoCur == [c |-> NoConn, i |-> 0, to |-> "", from |-> "", body |-> "", msg |-> NoFrame,
          todo |-> {}, lost |-> FALSE]

\* The process is gone once a panic escaped the hub goroutine.
Alive == hubPc # "panic"

\* (mutant: every identifier counts as registered)
IsRegisteredAny(id) == TRUE
IsRegistered(id) == id \in users

\* ------------------------------------------------------------ Encrypt/Decrypt
\* Byte strings and Go strings as the two functions handle them.  A key is its
\* length and an identity standing for its bytes.  A string is: whether
\* hex.DecodeString accepts it, the number of bytes it then decodes to (for a
\* plain text: its own length), and, when it is hex(nonce | Seal(...)), the
\* nonce, the key and the text that were sealed and whether the bytes are
\* still as Seal wrote them.
KeySize == 32        \* the only key length Encrypt and Decrypt accept
NonceSize == 12      \* aead.NonceSize() of cipher.NewGCM
TagSize == 16        \* aead.Overhead() of cipher.NewGCM

Key(len, id) == [len |-> len, id |-> id]

Str(hex, len, nonce, k, pt, intact) ==
    [hex |-> hex, len |-> len, nonce |-> nonce, k |-> k, pt |-> pt, intact |-> intact]

EmptyStr == Str(TRUE, 0, 0, 0, "", FALSE)

\* The texts of the runs and their lengths in bytes.
Texts == {"", "hi", "hello"}
Bytes(t) ==
    IF t = "" THEN 0 ELSE IF t = "hi" THEN 2 ELSE IF t = "read" THEN 4
    ELSE IF t = "delivered" THEN 9
    ELSE IF t \in {"recipient not found", "rate limit exceeded"} THEN 19 ELSE 5
Text(t) == IF t = "" THEN EmptyStr ELSE Str(FALSE, Bytes(t), 0, 0, t, FALSE)

Result(val, err) == [val |-> val, err |-> err]
Fail == Result(EmptyStr, TRUE)

\* aead.Seal(nil, nonce, plaintext, nil); out := append(nonce, ciphertext...);
\* hex.EncodeToString(out)
Seal(key, nonce, t) == Str(TRUE, NonceSize + Bytes(t) + TagSize, nonce, key.id, t, TRUE)

\* aead.Open(nil, nonce, ct, nil): the tag is checked under the key
Opens(key, h) == h.len >= NonceSize + TagSize /\ h.intact /\ h.k = key.id

\* func Encrypt(key, plaintext []byte) (string, error); nonce is what
\* io.ReadFull(rand.Reader, nonce) yields
\* (mutant: keys of 16 bytes are accepted too)
EncryptAES128(key, t, nonce) ==
    IF key.len \notin {16, KeySize} THEN Fail ELSE Result(Seal(key, nonce, t), FALSE)
Encrypt(key, t, nonce) ==
    IF key.len # KeySize THEN Fail
    ELSE Result(Seal(key, nonce, t), FALSE)

\* func Decrypt(key []byte, ciphertextHex string) (string, error)
Decrypt(key, h) ==
    IF key.len # KeySize THEN Fail
    ELSE IF ~h.hex THEN Fail
    ELSE IF h.len < NonceSize THEN Fail
    ELSE IF ~Opens(key, h) THEN Fail
    ELSE Result(Text(h.pt), FALSE)

\* ------------------------------------------------- keys, KEM and envelopes
\* Byte slices the client handles besides texts: a Kyber public or private
\* key of a client, a KEM ciphertext made for a client's public key with
\* randomness n, the shared secret it encapsulates, bytes that are none of
\* these, and the empty slice.
Blob(kind, of, n) == [kind |-> kind, of |-> of, n |-> n]
NoBlob == Blob("", "", 0)
Junk == Blob("junk", "", 0)
Pub(x) == Blob("pub", x, 0)
Priv(x) == Blob("priv", x, 0)
NoKey == Key(0, 0)

\* An envelope field carrying bytes as text: hex of a symmetric key, base64
\* of a Blob, or the empty string.
Field(enc, kind, of, n, len) == [enc |-> enc, kind |-> kind, of |-> of, n |-> n, len |-> len]
NoField == Field("", "", "", 0, 0)

\* hex.EncodeToString(kb); hex.DecodeString (base64 text is no hex)
HexKey(key) == Field("hex", "sym", "", key.id, key.len)
HexDecode(f) ==
    IF f.enc = "hex" THEN [ok |-> TRUE, key |-> Key(f.len, f.n)]
    ELSE IF f.enc = "" THEN [ok |-> TRUE, key |-> NoKey]
    ELSE [ok |-> FALSE, key |-> NoKey]

\* base64.StdEncoding.EncodeToString / DecodeString (64 hex digits are valid
\* base64: they decode to bytes that are no key)
B64(b) == IF b = NoBlob THEN NoField ELSE Field("b64", b.kind, b.of, b.n, 0)
B64Decode(f) ==
    IF f.enc = "b64" THEN [ok |-> TRUE, blob |-> Blob(f.kind, f.of, f.n)]
    ELSE IF f.enc = "" THEN [ok |-> TRUE, blob |-> NoBlob]
    ELSE [ok |-> TRUE, blob |-> Junk]

\* EncapsulateWithPub: UnmarshalBinaryPublicKey fails on bytes that are no
\* public key; r is the randomness of Encapsulate
EncapsulateWithPub(pubb, r) ==
    IF pubb.kind # "pub" THEN [ok |-> FALSE, ct |-> NoBlob, shared |-> NoBlob]
    ELSE [ok |-> TRUE, ct |-> Blob("ct", pubb.of, r), shared |-> Blob("ss", pubb.of, r)]

\* DecapsulateWithPriv: fails on bytes that are no private key or have not
\* the size of a ciphertext; a ciphertext made for another key decapsulates
\* to an unrelated secret
DecapsulateWithPriv(priv, ct) ==
    IF priv.kind # "priv" \/ ct.kind # "ct" THEN [ok |-> FALSE, shared |-> NoBlob]
    ELSE IF ct.of # priv.of THEN [ok |-> TRUE, shared |-> Junk]
    ELSE [ok |-> TRUE, shared |-> Blob("ss", ct.of, ct.n)]

\* hkdf.New(sha256.New, shared, nil, nil) read for 32 bytes: one key per secret
IdNum(x) == IF x = "a" THEN 1 ELSE IF x = "b" THEN 2 ELSE 9
Derive(shared) == Key(KeySize, 10 * IdNum(shared.of) + shared.n)
IsDerived(id) == id >= 10

\* messagePayload of the client; by is history, not part of the bytes: TRUE
\* for an envelope written by SendAndReceive of client id.
Envelope(type, id, recipient, body, msgid, pk, ek, by) ==
    [type |-> type, id |-> id, recipient |-> recipient, body |-> body, msg_id |-> msgid,
     public_key |-> pk, encrypted_key |-> ek, by |-> by]

Peer(x) == IF x = "a" THEN "b" ELSE "a"

\* ------------------------------------------------------------------ Init
\* var hub = &Hub{...}; users = make(map[string]bool); no connection yet.
Init ==
    /\ users = {} /\ usersMu = 0
    /\ rpc = [r \in 1..MaxReqs |-> "idle"]
    /\ rid = [r \in 1..MaxReqs |-> NoId]
    /\ rresp = [r \in 1..MaxReqs |-> 0]
    /\ nextConn = 1
    /\ status = [c \in Conns |-> 0]
    /\ pc = [c \in Conns |-> "new"]
    /\ cid = [c \in Conns |-> NoId]
    /\ pending = [c \in Conns |-> NoFrame]
    /\ connClosed = [c \in Conns |-> FALSE]
    /\ sendQ = [c \in Conns |-> <<>>]
    /\ sendClosed = [c \in Conns |-> FALSE]
    /\ writer = [c \in Conns |-> "none"]
    /\ pinger = [c \in Conns |-> "none"]
    /\ tokens = [c \in Conns |-> 0]
    /\ frames = 0
    /\ clients = {}
    /\ byID = [i \in Ids |-> NoConn]
    /\ undelivered = [i \in Ids |-> <<>>]
    /\ hubPc = "select" /\ hubCur = NoCur /\ shutdownReq = FALSE
    /\ lastReg = [i \in Ids |-> NoConn]
    /\ arrivals = 0
    /\ sentMessages = <<>>
    /\ encCall = [called |-> FALSE, key |-> Key(0, 0), pt |-> "", nonce |-> 0, res |-> Fail]
    /\ decCall = [called |-> FALSE, key |-> Key(0, 0), in |-> EmptyStr, res |-> Fail]
    /\ run = [x \in Ids |-> "off"]
    /\ keyFile = [x \in Ids |-> FALSE]
    /\ peerPub = [x \in Ids |-> NoBlob]
    /\ peerKeys = [x \in Ids |-> NoKey]
    /\ wire = [x \in Ids |-> <<>>]
    /\ shown = [x \in Ids |-> <<>>]
    /\ sends = [x \in Ids |-> [n |-> 0, err |-> FALSE, msgs |-> 0]]
    /\ readDue = [x \in Ids |-> <<>>]
    /\ injected = 0

\* ------------------------------------------------- registry as the hub sees it
\* HandleRegister's critical section (usersMu held from the test of users[id]
\* to the assignment), for a well-formed body with a non-empty id.
Claim(id) ==
    /\ Alive /\ usersMu = 0
    /\ id \notin users
    /\ users' = users \cup {id}
    /\ UNCHANGED <<usersMu, rpc, rid, rresp, connVars, hubVars, histVars, cliVars>>

\* --------------------------------------------------- POST /register handlers
\* HandleRegister, request r: method and body checks, then usersMu.Lock().
Reqs == 1..MaxReqs

RegRequest(r, post, id) ==
    /\ Alive /\ rpc[r] = "idle"
    /\ rid' = [rid EXCEPT ![r] = id]
    /\ IF ~post
       THEN rresp' = [rresp EXCEPT ![r] = 405] /\ rpc' = [rpc EXCEPT ![r] = "done"]
       ELSE IF id = NoId
       THEN rresp' = [rresp EXCEPT ![r] = 400] /\ rpc' = [rpc EXCEPT ![r] = "done"]
       ELSE UNCHANGED rresp /\ rpc' = [rpc EXCEPT ![r] = "lock"]
    /\ UNCHANGED <<users, usersMu, connVars, hubVars, histVars, cliVars>>

\* sync.Mutex: Lock returns only when no one holds usersMu
\* (mutant: no mutual exclusion)
NoMutex == TRUE
Unlocked == usersMu = 0

RegLock(r) ==
    /\ Alive /\ rpc[r] = "lock"
    /\ Unlocked
    /\ usersMu' = r
    /\ rpc' = [rpc EXCEPT ![r] = "check"]
    /\ UNCHANGED <<users, rid, rresp, connVars, hubVars, histVars, cliVars>>

\* if users[req.ID] { http.Error(409); return }
RegCheck(r) ==
    /\ Alive /\ rpc[r] = "check"
    /\ IF rid[r] \in users
       THEN rresp' = [rresp EXCEPT ![r] = 409] /\ rpc' = [rpc EXCEPT ![r] = "unlock"]
       ELSE UNCHANGED rresp /\ rpc' = [rpc EXCEPT ![r] = "set"]
    /\ UNCHANGED <<users, usersMu, rid, connVars, hubVars, histVars, cliVars>>

\* users[req.ID] = true; w.WriteHeader(http.StatusCreated)
RegSet(r) ==
    /\ Alive /\ rpc[r] = "set"
    /\ users' = users \cup {rid[r]}
    /\ rresp' = [rresp EXCEPT ![r] = 201]
    /\ rpc' = [rpc EXCEPT ![r] = "unlock"]
    /\ UNCHANGED <<usersMu, rid, connVars, hubVars, histVars, cliVars>>

\* defer usersMu.Unlock()
RegUnlock(r) ==
    /\ Alive /\ rpc[r] = "unlock"
    /\ usersMu' = 0
    /\ rpc' = [rpc EXCEPT ![r] = "done"]
    /\ UNCHANGED <<users, rid, rresp, connVars, hubVars, histVars, cliVars>>

\* ------------------------------------------------------- connection handler
\* HandleMessage up to `hub.register <- client`: the upgrade gate, the upgrade
\* and the construction of the Client.  The request takes the next connection
\* slot; status is the HTTP status it is answered with (101: upgraded).
\* (mutant: the registry is not consulted)
GateOpen(id) == IF id = NoId THEN 400 ELSE 101
Gate(id) ==
    IF id = NoId THEN 400
    ELSE IF ~IsRegistered(id) THEN 403
    ELSE 101

HandleMessage(id, upgraded, maxc) ==
    /\ Alive /\ nextConn <= maxc
    /\ LET code == IF Gate(id) = 101 /\ ~upgraded THEN 400 ELSE Gate(id) IN
        /\ status' = [status EXCEPT ![nextConn] = code]
        /\ pc' = [pc EXCEPT ![nextConn] = IF code = 101 THEN "register" ELSE "rejected"]
    /\ cid' = [cid EXCEPT ![nextConn] = id]
    /\ nextConn' = nextConn + 1
    /\ UNCHANGED <<regVars, pending, connClosed, sendQ, sendClosed, writer, pinger, tokens, frames,
                   hubVars, histVars, cliVars>>

\* The reader loop.  A frame is read only from an open transport and only
\* while the run's frame budget maxm lasts.
CanRead(c, maxm) ==
    /\ Alive /\ pc[c] = "read" /\ ~connClosed[c]
    /\ frames < maxm

\* The token bucket: `case <-rateTokens` takes a token, the 200 ms ticker puts
\* one back unless the bucket is full.  In the runs of Spec and SpecTakeover
\* frames arrive slower than the ticker refills: the tick that follows a frame
\* is taken with it.
Take(n) == n - 1
Refill(n) == IF n < RateCap THEN n + 1 ELSE n

\* What a routed frame does to the bucket: tick says that the ticker fires
\* before the next frame arrives (the slow-sender runs); without it the ticker
\* is the step RefillTick of its own.
Spend(n, tick) == IF tick THEN Refill(Take(n)) ELSE Take(n)

\* payload.Recipient != "" and IsRegistered: block on hub.targeted <- t
ReadTargeted(c, to, maxm, tick) ==
    /\ CanRead(c, maxm) /\ tokens[c] > 0
    /\ to # NoId /\ IsRegistered(to)
    /\ tokens' = [tokens EXCEPT ![c] = Spend(@, tick)]
    /\ pending' = [pending EXCEPT ![c] = ClientFrame(cid[c], to)]
    /\ pc' = [pc EXCEPT ![c] = "targeted"]
    /\ frames' = frames + 1
    /\ UNCHANGED <<regVars, nextConn, status, cid, connClosed, sendQ, sendClosed, writer, pinger,
                   hubVars, histVars, cliVars>>

\* payload.Recipient != "" and not registered: "recipient not found" is offered
\* to the handler's own client.Send; a send on a closed channel panics the
\* handler goroutine (net/http recovers it: the handler ends there).
\* (mutant: an unknown recipient ends the connection)
NotFoundFatal(c) ==
    /\ pc' = [pc EXCEPT ![c] = "unregister"]
    /\ UNCHANGED sendQ
NotFoundSend(c) ==
    IF sendClosed[c]
    THEN /\ pc' = [pc EXCEPT ![c] = "panicked"]
         /\ UNCHANGED sendQ
    ELSE /\ sendQ' = [sendQ EXCEPT ![c] = Offer(@, ErrorEnvelope("recipient not found"))]
         /\ UNCHANGED pc

ReadNotFound(c, to, maxm, tick) ==
    /\ CanRead(c, maxm) /\ tokens[c] > 0
    /\ to # NoId /\ ~IsRegistered(to)
    /\ tokens' = [tokens EXCEPT ![c] = Spend(@, tick)]
    /\ frames' = frames + 1
    /\ NotFoundSend(c)
    /\ UNCHANGED <<regVars, nextConn, status, cid, pending, connClosed, sendClosed, writer, pinger,
                   hubVars, histVars, cliVars>>

\* Unmarshal failed or payload.Recipient == "": block on hub.broadcast <- msg
ReadBroadcast(c, wf, maxm, tick) ==
    /\ CanRead(c, maxm) /\ tokens[c] > 0
    /\ tokens' = [tokens EXCEPT ![c] = Spend(@, tick)]
    /\ pending' = [pending EXCEPT ![c] =
                     IF wf THEN ClientFrame(cid[c], NoId) ELSE Malformed]
    /\ pc' = [pc EXCEPT ![c] = "broadcast"]
    /\ frames' = frames + 1
    /\ UNCHANGED <<regVars, nextConn, status, cid, connClosed, sendQ, sendClosed, writer, pinger,
                   hubVars, histVars, cliVars>>

\* `select { case <-rateTokens: default: ... continue }` with an empty bucket:
\* "rate limit exceeded" is offered to the handler's own client.Send and the
\* frame is dropped before it is decoded; a send on a closed channel panics
\* the handler goroutine.
\* (mutant: a frame over the limit is routed all the same)
RateLimitIgnored(c) ==
    /\ pc' = [pc EXCEPT ![c] = "broadcast"]
    /\ pending' = [pending EXCEPT ![c] = Malformed]
    /\ UNCHANGED sendQ
RateLimitSend(c) ==
    /\ UNCHANGED pending
    /\ IF sendClosed[c]
       THEN /\ pc' = [pc EXCEPT ![c] = "panicked"]
            /\ UNCHANGED sendQ
       ELSE /\ sendQ' = [sendQ EXCEPT ![c] = Offer(@, ErrorEnvelope("rate limit exceeded"))]
            /\ UNCHANGED pc

ReadRateLimited(c, maxm) ==
    /\ CanRead(c, maxm) /\ tokens[c] = 0
    /\ frames' = frames + 1
    /\ RateLimitSend(c)
    /\ UNCHANGED <<regVars, nextConn, status, cid, connClosed, sendClosed, writer, pinger, tokens,
                   hubVars, histVars, cliVars>>

\* The refill goroutine: every 200 ms `select { case rateTokens <- struct{}{}: default: }`
\* The goroutine is started once the handler is past `hub.register <- client`
\* and its loop has no exit: `defer ticker.Stop()` is never reached.
RefillRuns(c) == Alive /\ pc[c] \notin {"new", "rejected", "register"}

RefillTick(c) ==
    /\ RefillRuns(c)
    /\ tokens' = [tokens EXCEPT ![c] = Refill(@)]
    /\ UNCHANGED <<regVars, nextConn, status, pc, cid, pending, connClosed, sendQ, sendClosed,
                   writer, pinger, frames, hubVars, histVars, cliVars>>

\* conn.ReadMessage returns an error (peer gone, deadline, transport closed):
\* break out of the loop, towards `hub.unregister <- client`.
ReadError(c) ==
    /\ Alive /\ pc[c] = "read"
    /\ pc' = [pc EXCEPT ![c] = "unregister"]
    /\ UNCHANGED <<regVars, nextConn, status, cid, pending, connClosed, sendQ, sendClosed,
                   writer, pinger, tokens, frames, hubVars, histVars, cliVars>>

\* A frame longer than maxMessageSize arrives: conn.SetReadLimit(maxMessageSize)
\* makes conn.ReadMessage fail with ErrReadLimit on it (the library also sends
\* a close frame), so the loop breaks as on any read error and the check
\* `len(msg) > maxMessageSize` below it is never true.  The frame is counted.
ReadOversized(c, maxm) ==
    /\ CanRead(c, maxm)
    /\ frames' = frames + 1
    /\ pc' = [pc EXCEPT ![c] = "unregister"]
    /\ UNCHANGED <<regVars, nextConn, status, cid, pending, connClosed, sendQ, sendClosed,
                   writer, pinger, tokens, hubVars, histVars, cliVars>>

\* Writer goroutine: for msg := range c.Send { WriteMessage }, defer Conn.Close
WriterWrite(c) ==
    /\ Alive /\ writer[c] = "run"
    /\ sendQ[c] # <<>> /\ ~connClosed[c]
    /\ sendQ' = [sendQ EXCEPT ![c] = Tail(@)]
    /\ UNCHANGED <<regVars, nextConn, status, pc, cid, pending, connClosed, sendClosed,
                   writer, pinger, tokens, frames, hubVars, histVars, cliVars>>

\* WriteMessage fails (transport closed, or a network error): return
WriterFail(c) ==
    /\ Alive /\ writer[c] = "run"
    /\ sendQ[c] # <<>>
    /\ sendQ' = [sendQ EXCEPT ![c] = Tail(@)]
    /\ writer' = [writer EXCEPT ![c] = "exit"]
    /\ connClosed' = [connClosed EXCEPT ![c] = TRUE]
    /\ UNCHANGED <<regVars, nextConn, status, pc, cid, pending, sendClosed, pinger, tokens,
                   frames, hubVars, histVars, cliVars>>

\* c.Send is closed and drained: the range loop ends
WriterDone(c) ==
    /\ Alive /\ writer[c] = "run"
    /\ sendQ[c] = <<>> /\ sendClosed[c]
    /\ writer' = [writer EXCEPT ![c] = "exit"]
    /\ connClosed' = [connClosed EXCEPT ![c] = TRUE]
    /\ UNCHANGED <<regVars, nextConn, status, pc, cid, pending, sendQ, sendClosed, pinger,
                   tokens, frames, hubVars, histVars, cliVars>>

\* The writer in two steps, for the runs that follow the tasks of a handler:
\* a frame is received from c.Send and WriteMessage is entered ...
WriterBegin(c) ==
    /\ Alive /\ writer[c] = "run"
    /\ sendQ[c] # <<>>
    /\ sendQ' = [sendQ EXCEPT ![c] = Tail(@)]
    /\ writer' = [writer EXCEPT ![c] = "write"]
    /\ UNCHANGED <<regVars, nextConn, status, pc, cid, pending, connClosed, sendClosed,
                   pinger, tokens, frames, hubVars, histVars, cliVars>>

\* ... and WriteMessage returns: nil when the transport is open and took the
\* frame (ok), an error otherwise (return, and the deferred c.Conn.Close()).
WriterEnd(c, ok) ==
    /\ Alive /\ writer[c] = "write"
    /\ IF ok /\ ~connClosed[c]
       THEN /\ writer' = [writer EXCEPT ![c] = "run"]
            /\ UNCHANGED connClosed
       ELSE /\ writer' = [writer EXCEPT ![c] = "exit"]
            /\ connClosed' = [connClosed EXCEPT ![c] = TRUE]
    /\ UNCHANGED <<regVars, nextConn, status, pc, cid, pending, sendQ, sendClosed, pinger,
                   tokens, frames, hubVars, histVars, cliVars>>

\* pingTicker runs from time.NewTicker to the deferred pingTicker.Stop(), which
\* runs when HandleMessage returns or panics.  Stop does not close
\* pingTicker.C: after it `for range pingTicker.C` receives nothing more.
\* Pinger goroutine: a tick is received; SetWriteDeadline and WriteMessage(
\* websocket.PingMessage, nil) is entered ...
PingBegin(c) ==
    /\ Alive /\ pinger[c] = "wait"
    /\ pc[c] \in {"read", "targeted", "broadcast", "unregister"}
    /\ pinger' = [pinger EXCEPT ![c] = "write"]
    /\ UNCHANGED <<regVars, nextConn, status, pc, cid, pending, connClosed, sendQ, sendClosed,
                   writer, tokens, frames, hubVars, histVars, cliVars>>

\* ... and WriteMessage returns: nil (next tick), or an error: c.Conn.Close();
\* return.
PingEnd(c, ok) ==
    /\ Alive /\ pinger[c] = "write"
    /\ IF ok /\ ~connClosed[c]
       THEN /\ pinger' = [pinger EXCEPT ![c] = "wait"]
            /\ UNCHANGED connClosed
       ELSE /\ pinger' = [pinger EXCEPT ![c] = "exit"]
            /\ connClosed' = [connClosed EXCEPT ![c] = TRUE]
    /\ UNCHANGED <<regVars, nextConn, status, pc, cid, pending, sendQ, sendClosed, writer,
                   tokens, frames, hubVars, histVars, cliVars>>

\* --------------------------------------------------------------------- hub
\* A send on, or a close of, an already closed channel panics the hub
\* goroutine: the process dies.
HubPanic ==
    /\ hubPc' = "panic"
    /\ UNCHANGED <<hubCur, clients, byID, undelivered, sendQ, sendClosed, connClosed>>

\* case c := <-hub.register (c.ID is never empty: the gate refuses it): evict
\* the endpoint byID holds, insert c; the handler goes on to start its writer
\* and bucket and to read.  The drain of undelivered[c.ID] follows in HubDrain.
Evicted(id) == IF byID[id] # NoConn THEN {byID[id]} ELSE {}

HubRegister(c) ==
    /\ hubPc = "select" /\ pc[c] = "register"
    /\ LET id == cid[c] IN
        /\ connClosed' = [d \in Conns |-> connClosed[d] \/ d \in Evicted(id)]
        /\ clients' = (clients \ Evicted(id)) \cup {c}
        /\ byID' = [byID EXCEPT ![id] = c]
        /\ lastReg' = [lastReg EXCEPT ![id] = c]
        /\ IF undelivered[id] # <<>>
           THEN /\ hubPc' = "drain"
                /\ hubCur' = [NoCur EXCEPT !.c = c, !.i = 1]
           ELSE UNCHANGED <<hubPc, hubCur>>
    /\ pc' = [pc EXCEPT ![c] = "read"]
    /\ writer' = [writer EXCEPT ![c] = "run"]
    /\ pinger' = [pinger EXCEPT ![c] = "wait"]
    /\ tokens' = [tokens EXCEPT ![c] = RateCap]
    /\ UNCHANGED <<regVars, nextConn, status, cid, pending, sendQ, sendClosed, frames,
                   undelivered, shutdownReq, arrivals, cliVars>>

\* for _, m := range queued { select { case c.Send <- m: default: } }, one
\* iteration; after the last one delete(hub.undelivered, c.ID).  hubCur.lost is
\* history: an earlier iteration of this range took the default branch.
\* (mutant: the drain walks the queue backwards)
DrainNextReversed(q, i) == q[Len(q) + 1 - i]
DrainNext(q, i) == q[i]

\* delete(hub.undelivered, c.ID) after the range
\* (mutant: the offline queue is kept after the drain)
DrainKept(q) == q
DrainDeleted(q) == <<>>

HubDrain ==
    /\ hubPc = "drain" /\ SendProceeds(sendQ[hubCur.c])
    /\ LET c == hubCur.c
           id == cid[c]
           q == undelivered[id]
       IN IF sendClosed[c] THEN HubPanic
          ELSE /\ sendQ' = [sendQ EXCEPT ![c] = Offer(@, DrainNext(q, hubCur.i))]
               /\ IF hubCur.i = Len(q)
                  THEN /\ undelivered' = [undelivered EXCEPT ![id] = DrainDeleted(@)]
                       /\ hubPc' = "select" /\ hubCur' = NoCur
                  ELSE /\ hubCur' = [hubCur EXCEPT !.i = @ + 1,
                                                  !.lost = @ \/ ~HasRoom(sendQ[c])]
                       /\ UNCHANGED <<undelivered, hubPc>>
               /\ UNCHANGED <<clients, byID, sendClosed, connClosed>>
    /\ UNCHANGED <<regVars, nextConn, status, pc, cid, pending, writer, pinger, tokens, frames,
                   shutdownReq, histVars, cliVars>>

\* case c := <-hub.unregister: delete(hub.clients, c); delete(hub.byID, c.ID);
\* close(c.Send).  The handler then closes its transport and returns.
Unregistered(id, c) == NoConn

HubUnregister(c) ==
    /\ hubPc = "select" /\ pc[c] = "unregister"
    /\ pc' = [pc EXCEPT ![c] = "done"]
    /\ clients' = clients \ {c}
    /\ byID' = [byID EXCEPT ![cid[c]] = Unregistered(cid[c], c)]
    /\ IF sendClosed[c]
       THEN /\ hubPc' = "panic"
            /\ UNCHANGED <<sendClosed, connClosed>>
       ELSE /\ sendClosed' = [sendClosed EXCEPT ![c] = TRUE]
            /\ connClosed' = [connClosed EXCEPT ![c] = TRUE]
            /\ UNCHANGED hubPc
    /\ UNCHANGED <<regVars, nextConn, status, cid, pending, sendQ, writer, pinger, tokens, frames,
                   undelivered, hubCur, shutdownReq, histVars, cliVars>>

\* case t := <-hub.targeted: look t.to up in byID and try the send to
\* dest.Send; on `default`, or when t.to is absent, append to undelivered[t.to].
\* The ack for t.from (never empty) follows in HubAck; hubCur.c remembers the
\* endpoint whose reader handed the event over.
\* (mutants: the hub forwards a re-encoded payload that lost its body; the
\* offline queue is pushed at the front)
DeliverReencoded(q, m) == Append(q, [m EXCEPT !.body = ""])
Deliver(q, m) == Append(q, m)
EnqueueFront(q, m) == <<m>> \o q
Enqueue(q, m) == Append(q, m)

HubTargeted(c) ==
    /\ hubPc = "select" /\ pc[c] = "targeted"
    /\ byID[Recipient(pending[c])] # NoConn => SendProceeds(sendQ[byID[Recipient(pending[c])]])
    /\ LET m == Stamp(pending[c], arrivals + 1)
           to == Recipient(m)
           dest == byID[to]
       IN IF dest # NoConn /\ sendClosed[dest]
          THEN /\ HubPanic
               /\ UNCHANGED arrivals
          ELSE /\ arrivals' = arrivals + 1
               /\ IF dest # NoConn /\ HasRoom(sendQ[dest])
                  THEN /\ sendQ' = [sendQ EXCEPT ![dest] = Deliver(@, m)]
                       /\ hubCur' = [NoCur EXCEPT !.c = c, !.to = to, !.from = cid[c],
                                                  !.body = "delivered"]
                       /\ UNCHANGED undelivered
                  ELSE /\ undelivered' = [undelivered EXCEPT ![to] = Enqueue(@, m)]
                       /\ hubCur' = [NoCur EXCEPT !.c = c, !.to = to, !.from = cid[c],
                                                  !.body = "queued"]
                       /\ UNCHANGED sendQ
               /\ hubPc' = "ack"
               /\ UNCHANGED <<clients, byID, sendClosed, connClosed>>
    /\ pc' = [pc EXCEPT ![c] = "read"]
    /\ pending' = [pending EXCEPT ![c] = NoFrame]
    /\ UNCHANGED <<regVars, nextConn, status, cid, writer, pinger, tokens, frames, shutdownReq,
                   lastReg, cliVars>>

\* if sender, ok := hub.byID[t.from]; ok { select { case sender.Send <- ack: default: } }
\* (mutant: the ack is offered twice)
OfferAckTwice(q, to, body) == Offer(Offer(q, AckEnvelope(to, body)), AckEnvelope(to, body))
OfferAck(q, to, body) == Offer(q, AckEnvelope(to, body))

HubAck ==
    /\ hubPc = "ack"
    /\ byID[hubCur.from] # NoConn => SendProceeds(sendQ[byID[hubCur.from]])
    /\ LET sender == byID[hubCur.from] IN
        IF sender # NoConn /\ sendClosed[sender] THEN HubPanic
        ELSE /\ IF sender # NoConn
                THEN sendQ' = [sendQ EXCEPT ![sender] = OfferAck(@, hubCur.to, hubCur.body)]
                ELSE UNCHANGED sendQ
             /\ hubPc' = "select" /\ hubCur' = NoCur
             /\ UNCHANGED <<clients, byID, undelivered, sendClosed, connClosed>>
    /\ UNCHANGED <<regVars, nextConn, status, pc, cid, pending, writer, pinger, tokens, frames,
                   shutdownReq, histVars, cliVars>>

\* case msg := <-hub.broadcast: the range over hub.clients follows in
\* HubBroadcastNext (Go visits the map in an unspecified order).
HubBroadcast(c) ==
    /\ hubPc = "select" /\ pc[c] = "broadcast"
    /\ IF clients = {}
       THEN UNCHANGED <<hubPc, hubCur>>
       ELSE /\ hubPc' = "bcast"
            /\ hubCur' = [NoCur EXCEPT !.msg = pending[c], !.todo = clients]
    /\ pc' = [pc EXCEPT ![c] = "read"]
    /\ pending' = [pending EXCEPT ![c] = NoFrame]
    /\ UNCHANGED <<regVars, nextConn, status, cid, connClosed, sendQ, sendClosed, writer, pinger,
                   tokens, frames, clients, byID, undelivered, shutdownReq, histVars,
                   cliVars>>

\* select { case c.Send <- msg: default: close(c.Send); delete(hub.clients, c);
\* delete(hub.byID, c.ID) } for one client c of the range.
\* (mutant: a full queue is skipped, the endpoint stays)
SkipSlow(c) == UNCHANGED <<sendClosed, clients, byID, sendQ>>
EvictSlow(c) ==
    /\ sendClosed' = [sendClosed EXCEPT ![c] = TRUE]
    /\ clients' = clients \ {c}
    /\ byID' = [byID EXCEPT ![cid[c]] = NoConn]
    /\ UNCHANGED sendQ

HubBroadcastNext(c) ==
    /\ hubPc = "bcast" /\ c \in hubCur.todo /\ SendProceeds(sendQ[c])
    /\ IF sendClosed[c] THEN HubPanic
       ELSE /\ IF HasRoom(sendQ[c])
               THEN /\ sendQ' = [sendQ EXCEPT ![c] = Append(@, hubCur.msg)]
                    /\ UNCHANGED <<sendClosed, clients, byID>>
               ELSE EvictSlow(c)
            /\ IF hubCur.todo = {c}
               THEN hubPc' = "select" /\ hubCur' = NoCur
               ELSE /\ hubCur' = [hubCur EXCEPT !.todo = @ \ {c}]
                    /\ UNCHANGED hubPc
            /\ UNCHANGED <<undelivered, connClosed>>
    /\ UNCHANGED <<regVars, nextConn, status, pc, cid, pending, writer, pinger, tokens, frames,
                   shutdownReq, histVars, cliVars>>

\* ShutdownHub: select { case <-hub.shutdown: default: close(hub.shutdown) },
\* close the channel unless it is closed already.
\* (mutant: close(hub.shutdown) without the select; closing a closed channel
\* panics)
CloseAgain == IF shutdownReq THEN hubPc' = "panic" ELSE UNCHANGED hubPc
CloseOnce == UNCHANGED hubPc

ShutdownHub ==
    /\ Alive
    /\ shutdownReq' = TRUE
    /\ CloseOnce
    /\ UNCHANGED <<regVars, connVars, clients, byID, undelivered, hubCur, histVars,
                   cliVars>>

\* case <-hub.shutdown: the range over hub.clients follows in HubShutdownNext.
HubShutdown ==
    /\ hubPc = "select" /\ shutdownReq
    /\ IF clients = {}
       THEN hubPc' = "stopped" /\ UNCHANGED hubCur
       ELSE hubPc' = "shut" /\ hubCur' = [NoCur EXCEPT !.todo = clients]
    /\ UNCHANGED <<regVars, connVars, clients, byID, undelivered, shutdownReq, histVars,
                   cliVars>>

\* c.Conn.Close(); close(c.Send); delete(hub.clients, c); delete(hub.byID, c.ID)
\* for one client c of the range; `return` after the last one.
HubShutdownNext(c) ==
    /\ hubPc = "shut" /\ c \in hubCur.todo
    /\ IF sendClosed[c]
       THEN /\ hubPc' = "panic"
            /\ connClosed' = [connClosed EXCEPT ![c] = TRUE]
            /\ UNCHANGED <<hubCur, clients, byID, sendClosed>>
       ELSE /\ connClosed' = [connClosed EXCEPT ![c] = TRUE]
            /\ sendClosed' = [sendClosed EXCEPT ![c] = TRUE]
            /\ clients' = clients \ {c}
            /\ byID' = [byID EXCEPT ![cid[c]] = NoConn]
            /\ IF hubCur.todo = {c}
               THEN hubPc' = "stopped" /\ hubCur' = NoCur
               ELSE /\ hubCur' = [hubCur EXCEPT !.todo = @ \ {c}]
                    /\ UNCHANGED hubPc
    /\ UNCHANGED <<regVars, nextConn, status, pc, cid, pending, sendQ, writer, pinger, tokens, frames,
                   undelivered, shutdownReq, histVars, cliVars>>

\* ---------------------------------------------------------- specification
\* The relay serving the identifiers ids, maxc upgrade requests and maxm frames.
Step(ids, maxc, maxm) ==
    \/ \E id \in ids : Claim(id)
    \/ \E id \in ids \cup {NoId}, up \in BOOLEAN : HandleMessage(id, up, maxc)
    \/ \E c \in Conns, to \in Ids : ReadTargeted(c, to, maxm, TRUE)
    \/ \E c \in Conns, to \in Ids : ReadNotFound(c, to, maxm, TRUE)
    \/ \E c \in Conns, wf \in BOOLEAN : ReadBroadcast(c, wf, maxm, TRUE)
    \/ \E c \in Conns : ReadError(c)
    \/ \E c \in Conns : WriterWrite(c)
    \/ \E c \in Conns : WriterFail(c)
    \/ \E c \in Conns : WriterDone(c)
    \/ \E c \in Conns : HubRegister(c)
    \/ HubDrain
    \/ \E c \in Conns : HubUnregister(c)
    \/ \E c \in Conns : HubTargeted(c)
    \/ HubAck
    \/ \E c \in Conns : HubBroadcast(c)
    \/ \E c \in Conns : HubBroadcastNext(c)

Next == Step(Ids, MaxConns, MaxMsgs)

Spec == Init /\ [][Next]_vars

\* Runs in which every connection uses the one identifier "a": three
\* connections of one identity (two takeovers).
NextTakeover == Step({"a"}, MaxTakeover, MaxTakeoverMsgs)

SpecTakeover == Init /\ [][NextTakeover]_vars

\* Runs in which clients only send targeted frames to identifiers that are
\* claimed, connected or not, and every transport stays up: the offline queue
\* of an identifier grows past the capacity of an outbound queue before its
\* owner connects.
MaxDrainConns == 2   \* upgrade requests during such a run
MaxDrainMsgs == 4    \* frames read during such a run

NextDrain ==
    \/ \E id \in Ids : Claim(id)
    \/ \E id \in Ids : HandleMessage(id, TRUE, MaxDrainConns)
    \/ \E c \in Conns, to \in Ids : ReadTargeted(c, to, MaxDrainMsgs, TRUE)
    \/ \E c \in Conns : WriterWrite(c)
    \/ \E c \in Conns : HubRegister(c)
    \/ HubDrain
    \/ \E c \in Conns : HubTargeted(c)
    \/ HubAck

SpecDrain == Init /\ [][NextDrain]_vars

\* Runs of one identifier whose clients send broadcast frames, some of them
\* longer than the read limit.
MaxLimitConns == 2   \* upgrade requests during such a run
MaxLimitMsgs == 3    \* frames sent during such a run

NextLimit ==
    \/ \E id \in {"a"} : Claim(id)
    \/ \E id \in {"a"} : HandleMessage(id, TRUE, MaxLimitConns)
    \/ \E c \in Conns : ReadBroadcast(c, TRUE, MaxLimitMsgs, TRUE)
    \/ \E c \in Conns : ReadOversized(c, MaxLimitMsgs)
    \/ \E c \in Conns : WriterWrite(c)
    \/ \E c \in Conns : WriterDone(c)
    \/ \E c \in Conns : HubRegister(c)
    \/ \E c \in Conns : HubUnregister(c)
    \/ \E c \in Conns : HubBroadcast(c)
    \/ \E c \in Conns : HubBroadcastNext(c)

SpecLimit == Init /\ [][NextLimit]_vars

\* Runs of one identifier in which the hub goroutine is scheduled whenever it
\* can run: RunHub is one goroutine in a `for { select { ... } }` loop, and
\* the Go scheduler does not starve a runnable goroutine.  Nothing is assumed
\* of the handlers, the writers or the peers.
MaxLiveConns == 2    \* upgrade requests during a fair run
MaxLiveMsgs == 3     \* frames read during a fair run

RunHub ==
    \/ \E c \in Conns : HubRegister(c)
    \/ HubDrain
    \/ \E c \in Conns : HubUnregister(c)
    \/ \E c \in Conns : HubTargeted(c)
    \/ HubAck
    \/ \E c \in Conns : HubBroadcast(c)
    \/ \E c \in Conns : HubBroadcastNext(c)

NextLive == Step({"a"}, MaxLiveConns, MaxLiveMsgs)

SpecLive == Init /\ [][NextLive]_vars /\ WF_vars(RunHub)

\* The registry alone: concurrent POST /register requests.
NextRegistry ==
    \/ \E r \in Reqs, post \in BOOLEAN, id \in Ids \cup {NoId} : RegRequest(r, post, id)
    \/ \E r \in Reqs : RegLock(r)
    \/ \E r \in Reqs : RegCheck(r)
    \/ \E r \in Reqs : RegSet(r)
    \/ \E r \in Reqs : RegUnlock(r)

SpecRegistry == Init /\ [][NextRegistry]_vars

\* -------------------------------------------- client: the delivery tracker
\* SendAndReceive of client "a": sentMessages maps a msg_id to the Status of
\* its sentMsg.  msg_ids are 1, 2, ... (time.Now().UnixNano() is increasing).
Me == "a"

\* write loop: after sendBody succeeded,
\* sentMessages[msgID] = &sentMsg{..., Status: "sent"}
Submit ==
    /\ Len(sentMessages) < MaxSent
    /\ sentMessages' = Append(sentMessages, "sent")
    /\ UNCHANGED <<regVars, connVars, hubVars, histVars, cryptVars, sessVars>>

\* read loop, one envelope p of type ack: the two filters, then
\* if payload.MsgID != "" { if msg, ok := sentMessages[MsgID]; ok { msg.Status = payload.Body } }
AckStatus(old, body) == body

Passes(p) ==
    /\ ~(p.id = Me /\ p.type # "ack")
    /\ ~(p.recipient # NoId /\ p.recipient # Me)

RecvAck(p) ==
    /\ p.type = "ack"
    /\ sentMessages' =
          IF Passes(p) /\ p.msg_id # 0 /\ p.msg_id \in DOMAIN sentMessages
          THEN [sentMessages EXCEPT ![p.msg_id] = AckStatus(@, p.body)]
          ELSE sentMessages
    /\ UNCHANGED <<regVars, connVars, hubVars, histVars, cryptVars, sessVars>>

Acks ==
    {Payload(TRUE, "ack", i, r, b, m) :
        i \in Ids \cup {NoId}, r \in Ids \cup {NoId}, b \in {"delivered", "read", "queued", ""}, m \in 0..MaxSent}

NextClient ==
    \/ Submit
    \/ \E p \in Acks : RecvAck(p)

SpecClient == Init /\ [][NextClient]_vars

\* One client sending faster than its bucket refills: the ticker is a step of
\* its own and a frame can find the bucket empty.
NextRate ==
    \/ \E id \in {Me} : Claim(id)
    \/ \E id \in {Me} : HandleMessage(id, TRUE, MaxRateConns)
    \/ \E c \in Conns, to \in {Me} : ReadTargeted(c, to, MaxRateMsgs, FALSE)
    \/ \E c \in Conns, to \in {"b"} : ReadNotFound(c, to, MaxRateMsgs, FALSE)
    \/ \E c \in Conns, wf \in BOOLEAN : ReadBroadcast(c, wf, MaxRateMsgs, FALSE)
    \/ \E c \in Conns : ReadRateLimited(c, MaxRateMsgs)
    \/ \E c \in Conns : RefillTick(c)
    \/ \E c \in Conns : ReadError(c)
    \/ \E c \in Conns : WriterWrite(c)
    \/ \E c \in Conns : WriterFail(c)
    \/ \E c \in Conns : WriterDone(c)
    \/ \E c \in Conns : HubRegister(c)
    \/ \E c \in Conns : HubUnregister(c)
    \/ \E c \in Conns : HubTargeted(c)
    \/ HubAck
    \/ \E c \in Conns : HubBroadcast(c)
    \/ \E c \in Conns : HubBroadcastNext(c)

SpecRate == Init /\ [][NextRate]_vars

\* Encrypt and Decrypt called on keys of several lengths, on the texts and
\* nonces of the run, and Decrypt on what Encrypt returned, on that string cut
\* short or altered, and on plain text.
MaxNonce == 2        \* nonces rand.Reader yields during a run
Keys == {Key(l, i) : l \in {0, 16, 32, 33}, i \in {1, 2}}

\* h cut to its first n bytes; h with a byte changed
Cut(h, n) == [h EXCEPT !.len = IF n < h.len THEN n ELSE h.len, !.intact = h.intact /\ n >= h.len]
Altered(h) == [h EXCEPT !.intact = FALSE]

CallEncrypt(key, t, nonce) ==
    /\ encCall' = [called |-> TRUE, key |-> key, pt |-> t, nonce |-> nonce,
                   res |-> Encrypt(key, t, nonce)]
    /\ UNCHANGED <<regVars, connVars, hubVars, histVars, sentMessages, decCall, sessVars>>

\* Decrypt on what Encrypt returned, cut to n bytes and, with alt, altered
CallDecrypt(key, n, alt) ==
    /\ encCall.called
    /\ LET out == encCall.res.val
           h == Cut(IF alt THEN Altered(out) ELSE out, n)
       IN decCall' = [called |-> TRUE, key |-> key, in |-> h, res |-> Decrypt(key, h)]
    /\ UNCHANGED <<regVars, connVars, hubVars, histVars, sentMessages, encCall, sessVars>>

\* Decrypt on a string that is no hex
CallDecryptText(key, t) ==
    /\ encCall.called
    /\ decCall' = [called |-> TRUE, key |-> key, in |-> Text(t), res |-> Decrypt(key, Text(t))]
    /\ UNCHANGED <<regVars, connVars, hubVars, histVars, sentMessages, encCall, sessVars>>

NextCrypto ==
    \/ \E key \in Keys, t \in Texts, nonce \in 1..MaxNonce : CallEncrypt(key, t, nonce)
    \/ \E key \in Keys, alt \in BOOLEAN,
          n \in {0, NonceSize - 1, NonceSize, NonceSize + TagSize - 1, NonceSize + TagSize + 5} :
            CallDecrypt(key, n, alt)
    \/ \E key \in Keys, t \in Texts : CallDecryptText(key, t)

SpecCrypto == Init /\ [][NextCrypto]_vars

\* ------------------------------------------- client: the end-to-end session
\* Two clients a and b, each running SendAndReceive with the other as its
\* recipient.  The relay is the path between them: what one writes reaches the
\* other's read loop in the order written (wire).  The relay forwards whatever
\* a registered connection writes and does not compare the id field with the
\* connection, so frames of other programs reach a client too (Inject).  The
\* status of sent messages is not followed here (SpecClient does).
MaxLines == 2        \* lines the two users submit during a run
MaxInject == 2       \* frames of other programs during a run
MaxRand == 1         \* values the random sources yield during a run

Write(x, envs) == wire' = [wire EXCEPT ![Peer(x)] = @ \o envs]

\* What the relay does with a frame a client wrote: a frame with a recipient
\* goes to that recipient, a frame with an empty recipient is broadcast to
\* every connected client, its writer included.
Forward(w, env) ==
    IF env.recipient = NoId THEN [y \in Ids |-> Append(w[y], env)]
    ELSE [w EXCEPT ![env.recipient] = Append(@, env)]

\* SendAndReceive from its start to the read loop: dial, GetKeyPair (found
\* says whether a key pair is on disk), and the pubkey envelope.  When no pair
\* is found one is generated and saved, but into variables of the inner block:
\* the pub that is encoded is the empty one GetKeyPair returned.
Connect(x, found) ==
    /\ run[x] = "off"
    /\ run' = [run EXCEPT ![x] = "on"]
    /\ keyFile' = [keyFile EXCEPT ![x] = TRUE]
    /\ LET pub == IF found THEN Pub(x) ELSE NoBlob IN
        Write(x, <<Envelope("pubkey", x, Peer(x), EmptyStr, 0, B64(pub), NoField, TRUE)>>)
    /\ UNCHANGED <<regVars, connVars, hubVars, histVars, sentMessages, cryptVars,
                   peerPub, peerKeys, shown, sends, readDue, injected>>

\* sendBody(body, "msg", msgID, key): the envelopes it writes, the derived key
\* it caches and whether it returns an error.  key is hex of the 32 random
\* bytes the write loop draws for every line (rk), r the randomness of
\* Encapsulate, nonce that of Encrypt.
\* Third branch of sendBody: seal under the line's random key and send that
\* key, in hex, in the encrypted_key field of the same envelope.
SendBodyFallback(x, t, msgid, rk, r, nonce) ==
    LET kb == Key(KeySize, rk)
        c == Encrypt(kb, t, nonce)
    IN IF c.err THEN [err |-> TRUE, envs |-> <<>>, key |-> peerKeys[x]]
       ELSE [err |-> FALSE, key |-> peerKeys[x],
             envs |-> <<Envelope("msg", x, Peer(x), c.val, msgid, NoField, HexKey(kb), TRUE)>>]

\* sendPayload("", "encap_key", "", recipient, enc, ""): enc goes to encrypted_key
EncapEnvelope(x, ct) ==
    Envelope("encap_key", x, Peer(x), EmptyStr, 0, NoField, B64(ct), TRUE)

SendBody(x, t, msgid, rk, r, nonce) ==
    IF peerKeys[x].len > 0
    THEN LET c == Encrypt(peerKeys[x], t, nonce) IN
         IF c.err THEN [err |-> TRUE, envs |-> <<>>, key |-> peerKeys[x]]
         ELSE [err |-> FALSE, key |-> peerKeys[x],
               envs |-> <<Envelope("msg", x, Peer(x), c.val, msgid, NoField, NoField, TRUE)>>]
    ELSE IF peerPub[x] # NoBlob
    THEN LET kem == EncapsulateWithPub(peerPub[x], r)
             newDerived == Derive(kem.shared)
             c == Encrypt(newDerived, t, nonce)
         IN IF ~kem.ok THEN [err |-> TRUE, envs |-> <<>>, key |-> peerKeys[x]]
            ELSE [err |-> FALSE, key |-> newDerived,
                  envs |-> <<EncapEnvelope(x, kem.ct),
                             Envelope("msg", x, Peer(x), c.val, msgid, NoField, NoField, TRUE)>>]
    ELSE SendBodyFallback(x, t, msgid, rk, r, nonce)

\* write loop, one line t of the user: sendBody; on an error the loop breaks
\* and SendAndReceive returns (the deferred conn.Close ends the read loop).
\* With the read loop stuck in printIncoming the line is still sent, and the
\* write loop then waits for printMu in printSent or printError (hung).
WriteLine(x, t, rk, r, nonce) ==
    /\ run[x] \in {"on", "stuck"} /\ sends["a"].n + sends["b"].n < MaxLines
    /\ LET res == SendBody(x, t, sends[x].n + 1, rk, r, nonce) IN
        /\ Write(x, res.envs)
        /\ peerKeys' = [peerKeys EXCEPT ![x] = res.key]
        /\ sends' = [sends EXCEPT ![x] =
                        [n |-> @.n + 1, err |-> res.err,
                         msgs |-> Cardinality({k \in 1..Len(res.envs) : res.envs[k].type = "msg"})]]
        /\ run' = [run EXCEPT ![x] = IF @ = "stuck" THEN "hung"
                                     ELSE IF res.err THEN "quit" ELSE "on"]
    /\ UNCHANGED <<regVars, connVars, hubVars, histVars, sentMessages, cryptVars,
                   keyFile, peerPub, shown, readDue, injected>>

\* printIncoming(sender, msg, key): the text it prints and the derived key it
\* leaves in peerKeys[sender].  It holds printMu from its first statement to
\* its return, and every error branch calls printError, which locks printMu
\* again: sync.Mutex is not reentrant, so on an error the goroutine waits for
\* itself (hang) and nothing is printed.
PrintIncoming(x, msg, key) ==
    IF key = NoField THEN [msg |-> msg, key |-> peerKeys[x], hang |-> FALSE]
    ELSE IF HexDecode(key).ok
    THEN LET d == Decrypt(HexDecode(key).key, msg) IN
         [msg |-> IF d.err THEN msg ELSE d.val, key |-> peerKeys[x], hang |-> d.err]
    ELSE IF B64Decode(key).ok
    THEN LET priv == IF keyFile[x] THEN Priv(x) ELSE NoBlob
             kem == DecapsulateWithPriv(priv, B64Decode(key).blob)
             derived == Derive(kem.shared)
             d == Decrypt(derived, msg)
         IN IF ~kem.ok THEN [msg |-> msg, key |-> peerKeys[x], hang |-> TRUE]
            ELSE [msg |-> IF d.err THEN msg ELSE d.val, key |-> derived, hang |-> d.err]
    ELSE [msg |-> msg, key |-> peerKeys[x], hang |-> TRUE]

\* The two filters of the read loop
Accepts(x, e) ==
    /\ ~(e.id = x /\ e.type # "ack")
    /\ ~(e.recipient # NoId /\ e.recipient # x)

\* case "pubkey": the key is read from the encrypted_key field
PubkeyRead(e) == B64Decode(e.encrypted_key)

\* case "encap_key": the ciphertext is read from the public_key field
EncapRead(e) == B64Decode(e.public_key)

\* read loop, one frame.  When printIncoming hangs, the read loop is stuck
\* for good with printMu held: no ack is written for the frame.
ReadLoop(x) ==
    /\ run[x] = "on" /\ wire[x] # <<>>
    /\ LET e == Head(wire[x])
           rest == [wire EXCEPT ![x] = Tail(@)]
       IN IF ~Accepts(x, e) \/ e.type = "ack"
          THEN wire' = rest /\ UNCHANGED <<run, peerPub, peerKeys, shown, readDue>>
          ELSE IF e.type = "pubkey"
          THEN /\ wire' = rest
               /\ peerPub' = [peerPub EXCEPT ![x] =
                                 IF PubkeyRead(e).ok /\ e.id = Peer(x)
                                 THEN PubkeyRead(e).blob ELSE @]
               /\ UNCHANGED <<run, peerKeys, shown, readDue>>
          ELSE IF e.type = "encap_key"
          THEN LET priv == IF keyFile[x] THEN Priv(x) ELSE NoBlob
                   kem == DecapsulateWithPriv(priv, EncapRead(e).blob)
               IN /\ wire' = rest
                  /\ peerKeys' = [peerKeys EXCEPT ![x] =
                                     IF EncapRead(e).ok /\ kem.ok /\ e.id = Peer(x)
                                     THEN Derive(kem.shared) ELSE @]
                  /\ UNCHANGED <<run, peerPub, shown, readDue>>
          ELSE LET out == PrintIncoming(x, e.body, e.encrypted_key) IN
               /\ peerKeys' = [peerKeys EXCEPT ![x] = IF e.id = Peer(x) THEN out.key ELSE @]
               /\ IF out.hang
                  THEN /\ run' = [run EXCEPT ![x] = "stuck"]
                       /\ wire' = rest
                       /\ UNCHANGED <<shown, readDue>>
                  ELSE /\ shown' = [shown EXCEPT ![x] = Append(@, out.msg)]
                       /\ wire' = Forward(rest, Envelope("ack", x, e.id, Text("delivered"),
                                                        e.msg_id, NoField, NoField, TRUE))
                       /\ readDue' = [readDue EXCEPT ![x] =
                                         Append(@, [mid |-> e.msg_id, sender |-> e.id])]
                       /\ UNCHANGED run
               /\ UNCHANGED peerPub
    /\ UNCHANGED <<regVars, connVars, hubVars, histVars, sentMessages, cryptVars,
                   keyFile, sends, injected>>

\* go func(mid, sender) { time.Sleep(1s); sendPayload("read", "ack", mid, sender, "", "") }
DelayedRead(x) ==
    /\ run[x] \in {"on", "stuck", "hung"} /\ readDue[x] # <<>>
    /\ wire' = Forward(wire, Envelope("ack", x, Head(readDue[x]).sender, Text("read"),
                                     Head(readDue[x]).mid, NoField, NoField, TRUE))
    /\ readDue' = [readDue EXCEPT ![x] = Tail(@)]
    /\ UNCHANGED <<regVars, connVars, hubVars, histVars, sentMessages, cryptVars,
                   run, keyFile, peerPub, peerKeys, shown, sends, injected>>

\* Frames of another program that names itself Peer(x): its public key in the
\* field the pubkey case reads, a KEM ciphertext for x in the field the
\* encap_key case reads, a message sealed under the key of that ciphertext,
\* and a message that carries its key but whose body was altered on the way.
OtherFrames(x) ==
    {Envelope("pubkey", Peer(x), x, EmptyStr, 0, NoField, B64(Pub(Peer(x))), FALSE),
     Envelope("encap_key", Peer(x), x, EmptyStr, 0, B64(Blob("ct", x, MaxRand)), NoField, FALSE),
     Envelope("msg", Peer(x), x, Seal(Derive(Blob("ss", x, MaxRand)), MaxRand, "hi"), 1,
              NoField, NoField, FALSE),
     Envelope("msg", Peer(x), x, Altered(Seal(Key(KeySize, MaxRand), MaxRand, "hi")), 1,
              NoField, HexKey(Key(KeySize, MaxRand)), FALSE)}

Inject(x, e) ==
    /\ injected < MaxInject
    /\ injected' = injected + 1
    /\ wire' = [wire EXCEPT ![x] = Append(@, e)]
    /\ UNCHANGED <<regVars, connVars, hubVars, histVars, sentMessages, cryptVars,
                   run, keyFile, peerPub, peerKeys, shown, sends, readDue>>

NextSession ==
    \/ \E x \in Ids, found \in BOOLEAN : Connect(x, found)
    \/ \E x \in Ids, t \in Texts \ {""}, rk \in 1..MaxRand, r \in 1..MaxRand,
          nonce \in 1..MaxRand : WriteLine(x, t, rk, r, nonce)
    \/ \E x \in Ids : ReadLoop(x)
    \/ \E x \in Ids : DelayedRead(x)
    \/ \E x \in Ids : \E e \in OtherFrames(x) : Inject(x, e)

SpecSession == Init /\ [][NextSession]_vars

\* Envelopes that are no chat message: the two error envelopes of the relay
\* (no id, no recipient, no msg_id) and an envelope of a type the client does
\* not know, sent by its peer.
RelayFrames(x) ==
    {Envelope("error", NoId, NoId, Text("recipient not found"), 0, NoField, NoField, FALSE),
     Envelope("error", NoId, NoId, Text("rate limit exceeded"), 0, NoField, NoField, FALSE),
     Envelope("typing", Peer(x), x, EmptyStr, 0, NoField, NoField, FALSE)}

\* Two connected clients that receive such envelopes and submit no line.
NextNotice ==
    \/ \E x \in Ids, found \in BOOLEAN : Connect(x, found)
    \/ \E x \in Ids : ReadLoop(x)
    \/ \E x \in Ids : DelayedRead(x)
    \/ \E x \in Ids : \E e \in RelayFrames(x) : Inject(x, e)

SpecNotice == Init /\ [][NextNotice]_vars

\* The relay with its shutdown path.
MaxShutMsgs == 2     \* frames read during a run with a shutdown

NextShutdown ==
    \/ Step(Ids, MaxConns, MaxShutMsgs)
    \/ ShutdownHub
    \/ HubShutdown
    \/ \E c \in Conns : HubShutdownNext(c)

SpecShutdown == Init /\ [][NextShutdown]_vars

\* The tasks of the handlers: one identifier, broadcast frames only, the
\* writer and the pinger followed through their calls of WriteMessage, the
\* bucket refilled by its ticker.  The hub and every task that can take a step
\* eventually take one.
MaxTaskConns == 2    \* upgrade requests during such a run
MaxTaskMsgs == 2     \* frames read during such a run

NextTasks ==
    \/ \E id \in {"a"} : Claim(id)
    \/ \E id \in {"a"} : HandleMessage(id, TRUE, MaxTaskConns)
    \/ \E c \in Conns, wf \in BOOLEAN : ReadBroadcast(c, wf, MaxTaskMsgs, FALSE)
    \/ \E c \in Conns : ReadError(c)
    \/ \E c \in Conns : RefillTick(c)
    \/ \E c \in Conns : WriterBegin(c)
    \/ \E c \in Conns, ok \in BOOLEAN : WriterEnd(c, ok)
    \/ \E c \in Conns : WriterDone(c)
    \/ \E c \in Conns : PingBegin(c)
    \/ \E c \in Conns, ok \in BOOLEAN : PingEnd(c, ok)
    \/ \E c \in Conns : HubRegister(c)
    \/ \E c \in Conns : HubUnregister(c)
    \/ \E c \in Conns : HubBroadcast(c)
    \/ \E c \in Conns : HubBroadcastNext(c)

SpecTasks ==
    /\ Init /\ [][NextTasks]_vars
    /\ WF_vars(RunHub)
    /\ \A c \in Conns :
          /\ WF_vars(WriterBegin(c) \/ WriterDone(c) \/ \E ok \in BOOLEAN : WriterEnd(c, ok))
          /\ WF_vars(PingBegin(c) \/ \E ok \in BOOLEAN : PingEnd(c, ok))
          /\ WF_vars(RefillTick(c))

\* The relay around a shutdown, with progress: the hub takes a step whenever
\* it can, a reader's pending read returns, a writer whose queue is closed and
\* empty leaves.  Clients send broadcast frames only.
MaxStopMsgs == 1     \* frames read during such a run

NextStop ==
    \/ \E id \in Ids : Claim(id)
    \/ \E id \in Ids : HandleMessage(id, TRUE, MaxConns)
    \/ \E c \in Conns, wf \in BOOLEAN : ReadBroadcast(c, wf, MaxStopMsgs, TRUE)
    \/ \E c \in Conns : ReadError(c)
    \/ \E c \in Conns : WriterWrite(c)
    \/ \E c \in Conns : WriterDone(c)
    \/ \E c \in Conns : HubRegister(c)
    \/ \E c \in Conns : HubUnregister(c)
    \/ \E c \in Conns : HubBroadcast(c)
    \/ \E c \in Conns : HubBroadcastNext(c)
    \/ ShutdownHub
    \/ HubShutdown
    \/ \E c \in Conns : HubShutdownNext(c)

SpecStop ==
    /\ Init /\ [][NextStop]_vars
    /\ WF_vars(RunHub \/ HubShutdown \/ \E c \in Conns : HubShutdownNext(c))
    /\ \A c \in Conns : WF_vars(ReadError(c)) /\ WF_vars(WriterDone(c))

\* ================================================================ claims
\* Steps of the hub, recognised by what they change.
TargetedStep(c) == pc[c] = "targeted" /\ pc'[c] = "read"
AckStep == hubPc = "ack" /\ hubPc' # "ack"
DrainStep == hubPc = "drain" /\ (hubCur' # hubCur \/ hubPc' # hubPc)

IsAck(e, to, body) ==
    e.wf /\ e.type = "ack" /\ e.recipient = to /\ e.body = body

HubAcks(q) == {k \in 1..Len(q) : q[k].type = "ack" /\ q[k].id = NoId}

\* C1: the hub never holds two connected endpoints with the same identifier.
C1_OneEndpointPerId ==
    \A c1, c2 \in clients : cid[c1] = cid[c2] => c1 = c2

\* C6: after a takeover the endpoint registered last for an identifier, as long
\* as it is connected, is the endpoint by_id names for that identifier (also
\* once the replaced connection has finished its teardown).
C6_TakeoverKeepsSlot ==
    \A i \in Ids :
        (lastReg[i] # NoConn /\ lastReg[i] \in clients) => byID[i] = lastReg[i]

\* C2 as stated: every targeted event puts exactly one ack, with body
\* delivered or queued, on the outbound queue of the endpoint that sent it.
C2_ExactlyOneAck ==
    [][AckStep =>
        /\ hubCur.body \in {"delivered", "queued"}
        /\ Len(sendQ'[hubCur.c]) = Len(sendQ[hubCur.c]) + 1
        /\ IsAck(sendQ'[hubCur.c][Len(sendQ'[hubCur.c])], hubCur.to, hubCur.body)]_vars

\* C2 amended: every targeted event is followed by one ack offer, with body
\* delivered or queued, made without blocking to by_id[from]: one ack is placed
\* when by_id[from] exists and its queue has room, none otherwise; no other
\* step places an ack and no step places two.
C2_AtMostOneAck ==
    /\ [][\A c \in Conns : TargetedStep(c) => hubPc' \in {"ack", "panic"}]_vars
    /\ [][AckStep =>
            LET s == byID[hubCur.from] IN
            /\ hubCur.body \in {"delivered", "queued"}
            /\ \A d \in Conns \ {s} : sendQ'[d] = sendQ[d]
            /\ s # NoConn =>
                 IF Len(sendQ[s]) < SendCap
                 THEN /\ Len(sendQ'[s]) = Len(sendQ[s]) + 1
                      /\ SubSeq(sendQ'[s], 1, Len(sendQ[s])) = sendQ[s]
                      /\ IsAck(sendQ'[s][Len(sendQ'[s])], hubCur.to, hubCur.body)
                 ELSE sendQ'[s] = sendQ[s]]_vars
    /\ [][\A d \in Conns :
            Cardinality(HubAcks(sendQ'[d])) > Cardinality(HubAcks(sendQ[d])) => AckStep]_vars

\* C2 witness: a hub ack sits on the queue of a connected endpoint.
C2_Witness ==
    \E d \in clients : \E k \in 1..Len(sendQ[d]) :
        \E to \in Ids, b \in {"delivered", "queued"} : IsAck(sendQ[d][k], to, b)

\* The first half of C3, which the code keeps: a targeted event whose
\* recipient is in by_id with room in its queue puts the envelope, unchanged,
\* at the tail of that queue and prepares the ack {recipient = to, delivered}.
DeliveredUnchanged ==
    \A c \in Conns :
        LET to == Recipient(pending[c])
            dest == byID[to]
        IN (TargetedStep(c) /\ dest # NoConn /\ Len(sendQ[dest]) < SendCap) =>
            /\ Len(sendQ'[dest]) = Len(sendQ[dest]) + 1
            /\ SubSeq(sendQ'[dest], 1, Len(sendQ[dest])) = sendQ[dest]
            /\ Raw(sendQ'[dest][Len(sendQ'[dest])]) = pending[c]
            /\ undelivered' = undelivered
            /\ hubPc' = "ack" /\ hubCur'.body = "delivered"
            /\ hubCur'.to = to /\ hubCur'.from = cid[c]

\* C3 as stated: ... and the ack {recipient = to, body = delivered} is placed
\* on the queue of by_id[from] whenever the sender is connected.
C3_DeliveredAndAcked ==
    /\ [][DeliveredUnchanged]_vars
    /\ [][(AckStep /\ hubCur.body = "delivered" /\ byID[hubCur.from] # NoConn) =>
            LET s == byID[hubCur.from] IN
            /\ Len(sendQ'[s]) = Len(sendQ[s]) + 1
            /\ IsAck(sendQ'[s][Len(sendQ'[s])], hubCur.to, "delivered")]_vars

\* C3 amended: ... and the ack {recipient = to, body = delivered} is offered
\* without blocking to the queue of by_id[from]: it is placed when that queue
\* has room at the offer and dropped when it is full.
C3_DeliveredAckOffered ==
    /\ [][DeliveredUnchanged]_vars
    /\ [][(AckStep /\ hubCur.body = "delivered" /\ byID[hubCur.from] # NoConn) =>
            LET s == byID[hubCur.from] IN
            IF Len(sendQ[s]) < SendCap
            THEN /\ Len(sendQ'[s]) = Len(sendQ[s]) + 1
                 /\ IsAck(sendQ'[s][Len(sendQ'[s])], hubCur.to, "delivered")
            ELSE sendQ'[s] = sendQ[s]]_vars

\* C3 witness: b's endpoint holds an envelope a sent to b, and a's endpoint
\* holds the ack {recipient = b, delivered}.
C3_Witness ==
    \E s, d \in clients :
        /\ cid[s] = "a" /\ cid[d] = "b"
        /\ \E k \in 1..Len(sendQ[d]) : Raw(sendQ[d][k]) = ClientFrame("a", "b")
        /\ \E k \in 1..Len(sendQ[s]) : IsAck(sendQ[s][k], "b", "delivered")

\* The first half of C4, which the code keeps: a targeted event whose
\* recipient is absent from by_id, or present with a full queue, appends the
\* envelope to the end of offline_queue[to], touches no outbound queue and
\* prepares the ack {recipient = to, queued}.
QueuedOffline ==
    \A c \in Conns :
        LET to == Recipient(pending[c])
            dest == byID[to]
        IN (TargetedStep(c) /\ (dest = NoConn \/ Len(sendQ[dest]) >= SendCap)) =>
            /\ Len(undelivered'[to]) = Len(undelivered[to]) + 1
            /\ SubSeq(undelivered'[to], 1, Len(undelivered[to])) = undelivered[to]
            /\ Raw(undelivered'[to][Len(undelivered'[to])]) = pending[c]
            /\ \A i \in Ids \ {to} : undelivered'[i] = undelivered[i]
            /\ sendQ' = sendQ
            /\ hubPc' = "ack" /\ hubCur'.body = "queued"
            /\ hubCur'.to = to /\ hubCur'.from = cid[c]

\* C4 as stated: ... and the ack with body queued reaches the sender.
C4_QueuedAndAcked ==
    /\ [][QueuedOffline]_vars
    /\ [][(AckStep /\ hubCur.body = "queued") =>
            LET s == byID[hubCur.from] IN
            /\ s # NoConn
            /\ Len(sendQ'[s]) = Len(sendQ[s]) + 1
            /\ IsAck(sendQ'[s][Len(sendQ'[s])], hubCur.to, "queued")]_vars

\* C4 amended: ... and the ack with body queued is offered without blocking
\* to by_id[from]: placed when by_id[from] exists and its queue has room at
\* the offer, dropped otherwise.
C4_QueuedAckOffered ==
    /\ [][QueuedOffline]_vars
    /\ [][(AckStep /\ hubCur.body = "queued") =>
            LET s == byID[hubCur.from] IN
            IF s # NoConn /\ Len(sendQ[s]) < SendCap
            THEN /\ Len(sendQ'[s]) = Len(sendQ[s]) + 1
                 /\ IsAck(sendQ'[s][Len(sendQ'[s])], hubCur.to, "queued")
            ELSE sendQ' = sendQ]_vars

\* C4 witness: an envelope a sent to b waits in offline_queue[b] and a's
\* endpoint holds the ack {recipient = b, queued}.
C4_Witness ==
    \E s \in clients :
        /\ cid[s] = "a"
        /\ \E k \in 1..Len(undelivered["b"]) : Raw(undelivered["b"][k]) = ClientFrame("a", "b")
        /\ \E k \in 1..Len(sendQ[s]) : IsAck(sendQ[s][k], "b", "queued")

\* C5: hub arrival numbers (seq) increase along every offline queue and along
\* every outbound queue, and the drain on register offers offline_queue[id]
\* entry by entry from the first to the last to the tail of the new endpoint's
\* queue, placing or omitting each, before the hub takes any other event: the
\* envelopes queued while r was away reach r's queue in the order they were
\* targeted and ahead of everything routed to r later.
Routed(m) == m.seq > 0
Increasing(q) ==
    \A i, j \in 1..Len(q) : (i < j /\ Routed(q[i]) /\ Routed(q[j])) => q[i].seq < q[j].seq

C5_OfflineFIFO ==
    /\ [](\A i \in Ids : Increasing(undelivered[i]))
    /\ [](\A c \in Conns : Increasing(sendQ[c]))
    /\ [](\A c \in Conns : \A k \in 1..Len(sendQ[c]) : sendQ[c][k].seq <= arrivals)
    /\ [][DrainStep =>
            LET c == hubCur.c
                q == undelivered[cid[c]]
            IN /\ hubCur.i \in 1..Len(q)
               /\ sendQ'[c] \in {Append(sendQ[c], q[hubCur.i]), sendQ[c]}
               /\ Len(sendQ[c]) < SendCap => sendQ'[c] # sendQ[c]
               /\ \A d \in Conns \ {c} : sendQ'[d] = sendQ[d]
               /\ IF hubCur.i < Len(q)
                  THEN hubPc' = "drain" /\ hubCur'.i = hubCur.i + 1 /\ hubCur'.c = c
                       /\ undelivered' = undelivered
                  ELSE hubPc' = "select" /\ undelivered'[cid[c]] = <<>>]_vars

\* C5 witness: a drain has placed the first two of three queued envelopes, in
\* order, on the new endpoint's queue.
C5_Witness ==
    /\ hubPc = "drain" /\ hubCur.i = 3
    /\ sendQ[hubCur.c] = SubSeq(undelivered[cid[hubCur.c]], 1, 2)

\* C7: no ack moves the status of an outbound message record backwards in
\* sent < delivered < read, and read is terminal.
Rank(st) ==
    IF st = "sent" THEN 1 ELSE IF st = "delivered" THEN 2 ELSE IF st = "read" THEN 3 ELSE 0

C7_StatusMonotone ==
    [][\A m \in DOMAIN sentMessages : Rank(sentMessages'[m]) >= Rank(sentMessages[m])]_vars

\* C8: of the registration requests for one identifier exactly one is answered
\* 201 and every other 409, whatever the interleaving; an identifier is
\* registered exactly when a request for it was answered 201, and it stays
\* registered.
Created(i) == {r \in Reqs : rid[r] = i /\ rresp[r] = 201}
Answered(i) == {r \in Reqs : rid[r] = i /\ rpc[r] = "done" /\ rresp[r] \in {201, 409}}

C8_FirstClaimWins ==
    /\ [](\A i \in Ids : Cardinality(Created(i)) <= 1)
    /\ [](\A i \in Ids : Answered(i) # {} => Cardinality(Created(i)) = 1)
    /\ [](\A r \in Reqs : (rpc[r] = "done" /\ rid[r] \in Ids /\ rresp[r] # 405)
                              => rresp[r] \in {201, 409})
    /\ [](\A i \in Ids : IsRegistered(i) <=> Created(i) # {})
    /\ [][\A i \in Ids : IsRegistered(i) => (i \in users')]_vars

\* C8 witness: two finished requests for one identifier, one answered 201 and
\* one 409, while the other identifier was never claimed.
C8_Witness ==
    \E r1, r2 \in Reqs :
        /\ rid[r1] = "a" /\ rid[r2] = "a"
        /\ rpc[r1] = "done" /\ rpc[r2] = "done"
        /\ rresp[r1] = 201 /\ rresp[r2] = 409
        /\ ~IsRegistered("b")

\* C9: an upgrade request without id is answered 400 and one whose id is not
\* registered 403; a refused request changes no hub state, never becomes an
\* endpoint and no register event is ever taken for it.
UpgradeStep(c) == pc[c] = "new" /\ pc'[c] # "new"

NotFoundStep(c) == \E to \in Ids : ReadNotFound(c, to, MaxMsgs, TRUE)

IsNotFound(e) == e.wf /\ e.type = "error" /\ e.body = "recipient not found"

LimitedStep(c) == ReadRateLimited(c, MaxRateMsgs)

IsRateLimit(e) == e.wf /\ e.type = "error" /\ e.body = "rate limit exceeded"

MalformedStep(c) == ReadBroadcast(c, FALSE, MaxMsgs, TRUE)

\* C12: a frame that is no envelope is dropped where it is read: the reader
\* goes on reading with nothing pending for the hub, no hub state changes,
\* and no outbound queue ever holds an undecodable frame.
C12_MalformedDropped ==
    /\ [][\A c \in Conns : MalformedStep(c) =>
            (pc'[c] = "read" /\ pending' = pending /\ UNCHANGED hubVars)]_vars
    /\ [](\A c \in Conns : \A k \in 1..Len(sendQ[c]) : sendQ[c][k].wf)

\* Steps of a broadcast: the hub takes the event from the reader of c; the hub
\* finishes its offer to endpoint c.
BroadcastTaken(c) == pc[c] = "broadcast" /\ pc'[c] = "read"
BroadcastOffered(c) == hubPc = "bcast" /\ c \in hubCur.todo /\ c \notin hubCur'.todo

IsBroadcast(e) == Recipient(e) = NoId /\ e.type \notin {"ack", "error"}

\* C13: a broadcast event is offered to every endpoint connected when the hub
\* takes it, one after the other and before any other event; an endpoint with
\* room gets the envelope at the tail of its queue and stays; an endpoint
\* whose queue is full has its queue closed and is removed from connected and
\* by_id; an endpoint whose queue is closed is never connected again and its
\* queue never grows again.
C13_BroadcastEvictsSlow ==
    /\ [][\A c \in Conns : BroadcastTaken(c) =>
            IF clients = {} THEN hubPc' = "select"
            ELSE hubPc' = "bcast" /\ hubCur'.todo = clients /\ hubCur'.msg = pending[c]]_vars
    /\ [](hubPc = "bcast" => (hubCur.todo # {} /\ hubCur.todo \subseteq clients))
    /\ [][hubPc = "bcast" =>
            /\ hubPc' \in {"bcast", "select"}
            /\ hubPc' = "select" => Cardinality(hubCur.todo) = 1
            /\ hubPc' = "bcast" => hubCur'.msg = hubCur.msg]_vars
    /\ [][\A c \in Conns : BroadcastOffered(c) =>
            IF Len(sendQ[c]) < SendCap
            THEN /\ sendQ'[c] = Append(sendQ[c], hubCur.msg)
                 /\ c \in clients' /\ ~sendClosed'[c]
                 /\ byID' = byID
            ELSE /\ sendQ'[c] = sendQ[c]
                 /\ sendClosed'[c] /\ ~sendClosed[c]
                 /\ c \notin clients'
                 /\ \A i \in Ids : byID'[i] # c]_vars
    /\ [](\A c \in Conns : sendClosed[c] => c \notin clients)
    /\ [][\A c \in Conns : sendClosed[c] => Len(sendQ'[c]) <= Len(sendQ[c])]_vars

\* C13 witness: one broadcast has evicted an endpoint as slow (its reader is
\* still reading) and has reached another, connected endpoint.
C13_Witness ==
    \E c, d \in Conns :
        /\ c # d /\ sendClosed[c] /\ pc[c] = "read" /\ c \notin clients
        /\ byID[cid[c]] # c /\ Len(sendQ[c]) = SendCap
        /\ d \in clients
        /\ \E k \in 1..Len(sendQ[d]) : IsBroadcast(sendQ[d][k])

Handles(y, type) ==
    /\ run[y] = "on" /\ wire[y] # <<>>
    /\ Head(wire[y]).type = type /\ Head(wire[y]).by
    /\ wire'[y] = Tail(wire[y])
LineStep(x) == sends'[x].n = sends[x].n + 1

\* C14: when a client has processed the encap_key envelope its peer wrote
\* (the peer held the client's public key and sent its first message), both
\* hold the same 32-byte derived key for each other, and the envelope carried
\* the KEM ciphertext in its public_key field.
C14_KeyAgreement ==
    [][\A y \in Ids : Handles(y, "encap_key") =>
        /\ Head(wire[y]).public_key # NoField
        /\ peerKeys'[y].len = 32
        /\ peerKeys'[y] = peerKeys[Peer(y)]]_vars

\* C15: a msg envelope that a client sealed under its derived key, read by a
\* client that holds the same derived key for the sender, is printed as the
\* text that was typed.
C15_PlaintextSurfaced ==
    [][\A y \in Ids :
        (/\ Handles(y, "msg") /\ IsDerived(Head(wire[y]).body.k)
         /\ peerKeys[y] = Key(KeySize, Head(wire[y]).body.k)) =>
            shown'[y] = Append(shown[y], Text(Head(wire[y]).body.pt))]_vars

\* C16: a line submitted while the client holds neither a derived key nor a
\* usable public key of the recipient fails: sendBody returns an error and
\* nothing is written to the transport.
C16_MissingKeyFails ==
    [][\A x \in Ids :
        (LineStep(x) /\ peerKeys[x].len = 0 /\ peerPub[x].kind # "pub") =>
            (sends'[x].err /\ sends'[x].msgs = 0 /\ wire' = wire)]_vars

\* What the relay can do with one envelope: decode its encrypted_key field as
\* hex and open the body with it.
RelayOpens(e) ==
    /\ e.encrypted_key # NoField
    /\ HexDecode(e.encrypted_key).ok
    /\ ~Decrypt(HexDecode(e.encrypted_key).key, e.body).err

\* C17: no msg envelope a client has written to the relay can be opened with
\* what the envelope itself carries.
C17_RelayBlind ==
    \A x \in Ids : \A k \in 1..Len(wire[x]) :
        (wire[x][k].by /\ wire[x][k].type = "msg") => ~RelayOpens(wire[x][k])

\* The hub closes the queue of endpoint c: the unregister case, or the default
\* branch of a broadcast send.
ClosesQueue(c) ==
    \/ hubPc = "select" /\ pc[c] = "unregister" /\ pc'[c] = "done"
    \/ hubPc = "bcast" /\ c \in hubCur.todo /\ ~HasRoom(sendQ[c]) /\ hubCur' # hubCur

\* C19: the hub closes an endpoint's outbound queue only while it is open (an
\* endpoint evicted as slow and later unregistered by its reader is not closed
\* again), and no step of an endpoint ends the hub goroutine.
C19_ClosedOnce ==
    [][/\ \A c \in Conns : ClosesQueue(c) => ~sendClosed[c]
       /\ hubPc' # "panic"]_vars

\* The hub goroutine is in its loop; a handler waits in a send on one of the
\* hub's unbuffered channels; the hub has something to do.
Running == hubPc \notin {"panic", "stopped"}
Blocked(c) == pc[c] \in {"register", "unregister", "targeted", "broadcast"}
HubPending == hubPc # "select" \/ \E c \in Conns : Blocked(c)

\* C20: whenever the hub is running and is inside a handler or has an event
\* pending on one of its channels, it can take a step, whatever the state of
\* the endpoints' queues; and a handler waiting to hand an event to the hub
\* does not wait forever while the hub runs.
C20_WaitFree ==
    /\ []((Running /\ HubPending) => ENABLED RunHub)
    /\ \A c \in Conns : Blocked(c) ~> (~Blocked(c) \/ ~Running)

\* The hub has taken a targeted event whose recipient's queue was full (the
\* message went to the offline queue), it is back in its select, and the
\* handler that sent the event is reading again.
C20_Witness ==
    \E c \in Conns :
        /\ Running /\ hubPc = "select" /\ pc[c] = "read" /\ arrivals > 0
        /\ byID[cid[c]] = c /\ ~HasRoom(sendQ[c]) /\ undelivered[cid[c]] # <<>>

\* C21: every decodable envelope on an endpoint's outbound queue, the hub's
\* acks and the reader's error envelopes included, has a non-empty id field.
C21_IdNeverEmpty ==
    \A c \in Conns : \A k \in 1..Len(sendQ[c]) :
        sendQ[c][k].wf => sendQ[c][k].id # NoId

\* C22: an ack of the hub on the queue of endpoint c, for the message c's
\* client sent to the ack's recipient, carries the msg_id of that message.
C22_AckCarriesMsgId ==
    \A c \in Conns : \A k \in HubAcks(sendQ[c]) :
        sendQ[c][k].msg_id = ClientFrame(cid[c], sendQ[c][k].recipient).msg_id

\* C23: within one drain of an offline queue, once an envelope was discarded
\* no later envelope of the queue is enqueued, however the endpoint's writer
\* interleaves with the drain.
C23_DiscardedSuffix ==
    [][(DrainStep /\ hubCur.lost) => sendQ' = sendQ]_vars

\* The hub takes the register event of endpoint c.
RegisterTaken(c) == hubPc = "select" /\ pc[c] = "register" /\ pc'[c] = "read"

\* C24: a register event that finds an endpoint in by_id[id] leaves that
\* endpoint with its transport closed, its outbound queue closed and out of
\* connected, and by_id[id] holding the new endpoint.
C24_RegisterEvicts ==
    [][\A c \in Conns :
        (RegisterTaken(c) /\ byID[cid[c]] # NoConn) =>
            LET old == byID[cid[c]] IN
                /\ connClosed'[old] /\ sendClosed'[old]
                /\ old \notin clients' /\ byID'[cid[c]] = c]_vars

\* C25: from the register event of an endpoint to the end of its drain the
\* hub takes no targeted event and touches neither map; every step of the
\* drain offers the next envelope of offline_queue[id], in order, to the new
\* endpoint and to no other; and when the hub is back in its select
\* offline_queue[id] is empty.
C25_RegisterAtomic ==
    [][/\ hubPc = "drain" =>
            /\ arrivals' = arrivals /\ byID' = byID /\ clients' = clients
            /\ \A c \in Conns : pc[c] = "targeted" => pc'[c] = "targeted"
       /\ (DrainStep /\ hubPc' # "panic") =>
            LET c == hubCur.c
                m == undelivered[cid[c]][hubCur.i]
            IN /\ sendQ'[c] = IF HasRoom(sendQ[c]) THEN Append(sendQ[c], m) ELSE sendQ[c]
               /\ \A d \in Conns \ {c} : sendQ'[d] = sendQ[d]
               /\ hubPc' = "select" => undelivered'[cid[c]] = <<>>
       /\ \A c \in Conns :
            (RegisterTaken(c) /\ hubPc' = "select") => undelivered'[cid[c]] = <<>>
       /\ \A c \in Conns :
            (RegisterTaken(c) /\ hubPc' = "drain") =>
                hubCur'.c = c /\ hubCur'.i = 1 /\ byID'[cid[c]] = c]_vars

\* A drain is past its first envelope while a handler waits to hand the hub a
\* targeted event for the identifier being drained.
C25_Witness ==
    /\ hubPc = "drain" /\ hubCur.i > 1
    /\ \E c \in Conns : pc[c] = "targeted" /\ Recipient(pending[c]) = cid[hubCur.c]

\* C26: when a client has handled a pubkey envelope its peer wrote, the public
\* key it caches for the peer is the one in the envelope's public_key field.
C26_PubkeyCached ==
    [][\A y \in Ids : Handles(y, "pubkey") =>
        peerPub'[y] = B64Decode(Head(wire[y]).public_key).blob]_vars

\* C27: the pubkey envelope a client writes on connect carries its public
\* key, whether the pair was found on disk or generated during this connect.
C27_PubkeySent ==
    \A x \in Ids : \A k \in 1..Len(wire[x]) :
        (wire[x][k].by /\ wire[x][k].type = "pubkey") =>
            wire[x][k].public_key = B64(Pub(wire[x][k].id))

\* A client's read loop takes a frame of the given type, whoever wrote it.
Reads(y, type) ==
    /\ run[y] = "on" /\ wire[y] # <<>> /\ Accepts(y, Head(wire[y]))
    /\ Head(wire[y]).type = type
    /\ wire'[y] = Tail(wire[y])

\* A msg envelope the client cannot decrypt: it brings no key and the client
\* holds no derived key for the sender, or the key it brings does not open
\* its body.
Undecryptable(y, e) ==
    \/ e.encrypted_key = NoField /\ peerKeys[y].len = 0 /\ e.body.hex
    \/ /\ e.encrypted_key # NoField /\ HexDecode(e.encrypted_key).ok
       /\ Decrypt(HexDecode(e.encrypted_key).key, e.body).err

\* C28: a client that reads a msg envelope it cannot decrypt does not print
\* the body as a message, and goes on running (the outcome is an error shown
\* to the user).
C28_DecryptError ==
    [][\A y \in Ids :
        (Reads(y, "msg") /\ Undecryptable(y, Head(wire[y]))) =>
            (shown'[y] = shown[y] /\ run'[y] = "on")]_vars

\* C29: the status of every outbound message record is sent, delivered or
\* read after every step, whatever the body of the acks received, and a step
\* changes a record only when it handles an ack carrying the record's msg_id.
C29_StatusDomain ==
    [][/\ \A m \in DOMAIN sentMessages' :
            sentMessages'[m] \in {"sent", "delivered", "read"}
       /\ \A m \in DOMAIN sentMessages :
            sentMessages'[m] # sentMessages[m] =>
                \E p \in Acks : RecvAck(p) /\ p.msg_id = m]_vars

\* C30: a frame over the size limit is not routed (no event for the hub,
\* nothing on a queue), and the connection that sent it stays open with its
\* reader back at ReadMessage.
C30_OversizedDropped ==
    [][\A c \in Conns : ReadOversized(c, MaxLimitMsgs) =>
        /\ pending' = pending /\ sendQ' = sendQ
        /\ pc'[c] = "read" /\ ~connClosed'[c]]_vars

\* C31: in its shutdown case the hub closes the queue and the transport of
\* every connected endpoint, each queue while it is still open; when it has
\* stopped connected and by_id are empty and it takes no further event; and a
\* call of ShutdownHub after shutdown was requested changes nothing.
C31_Shutdown ==
    [][/\ \A c \in Conns : HubShutdownNext(c) =>
            /\ c \in clients /\ ~sendClosed[c]
            /\ sendClosed'[c] /\ connClosed'[c] /\ c \notin clients'
       /\ hubPc' = "shut" => hubCur'.todo = clients'
       /\ hubPc' = "stopped" => (clients' = {} /\ \A i \in Ids : byID'[i] = NoConn)
       /\ hubPc = "stopped" =>
            /\ hubPc' = "stopped" /\ clients' = clients /\ byID' = byID
            /\ sendClosed' = sendClosed /\ undelivered' = undelivered
            /\ \A c \in Conns : Blocked(c) => pc'[c] = pc[c]
       /\ shutdownReq => shutdownReq'
       /\ (shutdownReq /\ ShutdownHub) => UNCHANGED vars]_vars

\* The hub has stopped after closing two endpoints, and a handler still waits
\* to hand it an event.
C31_Witness ==
    /\ hubPc = "stopped" /\ shutdownReq
    /\ Cardinality({c \in Conns : sendClosed[c] /\ connClosed[c]}) = 2
    /\ \E c \in Conns : Blocked(c)

\* C32: the unregister event of an endpoint that by_id no longer names, and
\* the eviction of a slow endpoint that by_id does not name, leave by_id as
\* it is.
C32_StaleUnregister ==
    [][\A c \in Conns :
        /\ (HubUnregister(c) /\ byID[cid[c]] # c) => byID' = byID
        /\ (HubBroadcastNext(c) /\ ~sendClosed[c] /\ ~HasRoom(sendQ[c]) /\ byID[cid[c]] # c)
              => byID' = byID]_vars

\* C33: no handler has died in a send on its endpoint's closed outbound
\* queue, and the reader offers an error envelope only while the queue is
\* open.
C33_NoSendOnClosed ==
    \A c \in Conns : pc[c] # "panicked"

\* C34: every identifier that has an entry in the offline queue is a
\* registered identifier: the hub never queues a frame for an identifier that
\* is absent from the registry.
C34_QueuedRegistered ==
    \A i \in Ids : undelivered[i] # <<>> => i \in users

\* A frame waits in the offline queue of a claimed identifier that is not
\* connected, while a frame for an unclaimed identifier was answered with
\* "recipient not found".
C34_Witness ==
    /\ \E i \in Ids : undelivered[i] # <<>> /\ byID[i] = NoConn
    /\ \E c \in Conns, k \in 1..SendCap :
          /\ k <= Len(sendQ[c])
          /\ sendQ[c][k] = ErrorEnvelope("recipient not found")
    /\ Ids \ users # {}

\* C35: no client task waits forever for the print lock: the receive loop is
\* never blocked in printError behind the lock printIncoming holds, and the
\* input loop is never blocked in printPrompt behind it.
C35_PrintLockFree ==
    \A x \in Ids : run[x] \notin {"stuck", "hung"}

\* C36: a client that reads an envelope of a type other than msg (an error
\* envelope of the relay, an unrecognised type) writes no frame: no delivered
\* ack now and no read ack later.
C36_AcksOnlyForMsg ==
    [][\A x \in Ids :
        (ReadLoop(x) /\ Head(wire[x]).type # "msg") =>
            /\ readDue' = readDue
            /\ \A y \in Ids : wire'[y] = IF y = x THEN Tail(wire[y]) ELSE wire[y]]_vars

\* C37: once a handler's teardown is over (its reader has left the loop and
\* the hub has processed its unregister event), its writer, its pinger and
\* its refill task each eventually stop.
C37_TasksStop ==
    \A c \in Conns :
        (pc[c] = "done") ~>
            \/ ~Alive
            \/ writer[c] = "exit" /\ pinger[c] = "exit" /\ ~RefillRuns(c)

\* C38: once the hub has processed the shutdown, every handler eventually
\* returns: a reader's hand-over of its unregister event does not block for
\* ever, nor does the register hand-over of a connection accepted after the
\* shutdown.
C38_HandlersReturn ==
    \A c \in Conns : (hubPc = "stopped") ~> (pc[c] \in {"new", "rejected", "done", "panicked"})

\* C39: while a recipient stays connected, its outbound queue never holds an
\* envelope of a sender that the hub took after an envelope of the same
\* sender which still waits in the recipient's offline queue: the earlier
\* envelope is never overtaken, also when it found the outbound queue full.
C39_PairOrder ==
    \A i \in Ids :
        (byID[i] # NoConn /\ hubPc # "drain") =>
            \A k \in DOMAIN undelivered[i], j \in DOMAIN sendQ[byID[i]] :
                LET e1 == undelivered[i][k]
                    e2 == sendQ[byID[i]][j]
                IN (e2.type = "msg" /\ e2.id = e1.id) => e2.seq < e1.seq

\* C40: at most one task is inside a write to a given transport at any time:
\* the writer of an endpoint and its pinger are never both within
\* WriteMessage on the endpoint's connection.
C40_OneWriter ==
    \A c \in Conns : ~(writer[c] = "write" /\ pinger[c] = "write")

====
